---- MODULE Spec2Model ----
(***************************************************************************)
(* Model of DevicetreeDriverBuilder::build                                 *)
(* (drivers/src/builder/devicetree.rs): the walk over the device tree      *)
(* that fills dev_list and intc_map, and the pass that decodes every       *)
(* device's interrupts_extended list and registers the device with the     *)
(* interrupt controllers it names; and of UartAllwinner                    *)
(* (drivers/src/uart/uart_allwinner.rs), whose register block is reached   *)
(* through a spin::Mutex by any number of threads.                         *)
(***************************************************************************)
EXTENDS Integers, Sequences, FiniteSets, TLC

VARIABLES
    pc,          \* "walk": inside dt.walk; "bind": inside the for loop; "done";
                 \* "node", "parsed": the closure alone; "uart": no build runs
    visited,     \* number of nodes the walk has handed to the closure
    size,        \* size of the part of the tree walked so far (see MaxTree)
    dev_list,    \* Vec<DevWithInterrupt>: records [dev, ie]
    intc_map,    \* BTreeMap<u32, Intc>: phandle -> [index, cells]
    di,          \* position of the for loop in dev_list (0 before the first)
    extended,    \* the slice `extended` of the current device
    calls,       \* calls made on the controllers, oldest first, with their results
    result,      \* "running", "Ok", a DeviceError, "panic" or "unreachable"
    returned,    \* the Vec<Device> build returns with Ok (<<>> until then)
    outcome,     \* what the two paths of the closure made of the last node
    plain,       \* history: no node visited so far had the interrupt-controller
                 \* flag or an interrupts-extended property
    cur,         \* the node and hardware the closure is applied to on its own
    mutex,       \* UartAllwinner.inner: the thread holding the lock, 0 if free
    thr,         \* per thread: where it is in its call on the UartAllwinner
    tx           \* bytes written to the THR register, oldest first

uart_vars == <<mutex, thr, tx>>

vars == <<pc, visited, size, dev_list, intc_map, di, extended, calls, result,
          returned, outcome, plain, cur, mutex, thr, tx>>

\* ---------------------------------------------------------------- bounds

\* Largest input of the binding pass: a device of dev_list counts 2, a cell
\* of its interrupts_extended list counts 1 (so 9 allows two devices with
\* five cells between them, or three devices with three cells).
MaxInput == 9

\* Largest tree the walk visits: a node counts 3, a cell of its
\* interrupts-extended property counts 1 (so 7 allows two nodes with one
\* cell between them, or one node with four cells).
MaxTree == 7

\* Longest string handed to write_str.
MaxStr == 2

\* Number of calls made on the UartAllwinner, over all threads.
MaxCalls == 2

\* ------------------------------------------------------------- constants

\* irq_num that marks "no interrupt": 0xffff_ffff, all 32 bits set. Written
\* as the signed 32-bit value with that bit pattern, which is what the model
\* checker's integers hold.
SENTINEL == -1

\* Values a cell of interrupts_extended takes: two small numbers, used both
\* as phandles and as interrupt numbers, and the sentinel.
CellValues == {1, 2, SENTINEL}

\* phandle values a controller node declares.
Phandles == {1, 2}

\* #interrupt-cells values a controller node declares.
CellWidths == {0, 1, 2}

\* DeviceError values a controller hands back from register_device / unmask.
CallErrors == {"InvalidParam", "AlreadyExists"}

DeviceError ==
    {"NotSupported", "InvalidParam", "NoResources", "AlreadyExists", "IoError"}

\* b'\n' and b'\r' (uart_allwinner.rs lines 132-133), and the bytes a caller
\* sends: a letter and the line feed.
LF == 10

CR == 13

Bytes == {97, LF}

\* ------------------------------------------------------------ data model

\* Device::Irq(..) and Device::Uart(..), as the binding pass sees them.
\* struct Intc { index, cells }; index counts from 0 as in the source.
Intc(index, cells) == [index |-> index, cells |-> cells]

\* intc_map.insert(phandle, intc): a later insert of the same key replaces.
MapInsert(map, phandle, intc) ==
    [p \in (DOMAIN map) \cup {phandle} |-> IF p = phandle THEN intc ELSE map[p]]

EmptyMap == [p \in {} |-> Intc(0, 0)]

\* Mutant of PushIntc: the index is taken after the push.
PushIntcAfterPush(s, dev, ie, phandle, interrupt_cells) ==
    [dl  |-> Append(s.dl, [dev |-> dev, ie |-> ie]),
     map |-> MapInsert(s.map, phandle, Intc(Len(s.dl) + 1, interrupt_cells))]

\* Lines 76-83: insert {index = dev_list.len(), cells}, then push the device.
PushIntc(s, dev, ie, phandle, interrupt_cells) ==
    [dl  |-> Append(s.dl, [dev |-> dev, ie |-> ie]),
     map |-> MapInsert(s.map, phandle, Intc(Len(s.dl), interrupt_cells))]

\* Line 103: dev_list.push(dev).
PushDev(s, dev, ie) ==
    [dl |-> Append(s.dl, [dev |-> dev, ie |-> ie]), map |-> s.map]

\* Threads that share one UartAllwinner.
Threads == {1, 2}

\* A thread outside every call; n counts the calls it has made.
IdleThread == [pc |-> "idle", op |-> "none", s |-> <<>>, arg |-> <<>>,
               pend |-> <<>>, n |-> 0]

\* Mutex::new(inner): unlocked, no thread in a call, nothing written yet.
UartInit ==
    /\ mutex = 0
    /\ thr = [t \in Threads |-> IdleThread]
    /\ tx = <<>>

\* ------------------------------------------------------ tree and parsing

\* An optional property: <<>> when the node lacks it, <<v>> when it has v.
Opt(S) == {<<>>} \cup {<<v>> : v \in S}

\* All sequences of exactly k cells.
Lists(k) == [1..k -> CellValues]

\* All sequences of at most k cells.
ListsUpTo(k) == UNION {Lists(j) : j \in 0..k}

\* The compatible lists of the nodes: one per class the build matches (with
\* the features virtio and board-d1 on a riscv64 target), none, and a node
\* that is both a PLIC and a 16550.
Comps ==
    { {}, {"riscv,cpu-intc"}, {"riscv,plic0"}, {"ns16550a"}, {"virtio,mmio"},
      {"allwinner,sun20i-uart"}, {"allwinner,sunxi-gmac"},
      {"riscv,plic0", "ns16550a"} }

\* The nodes of at most r units. phandle and #interrupt-cells are read only
\* on nodes with the interrupt-controller flag, so other nodes carry none.
Nodes(r) ==
    IF r < 3
    THEN {}
    ELSE [flag : {TRUE}, phandle : Opt(Phandles), icells : Opt(CellWidths),
          comp : Comps, reg : BOOLEAN, ie : Opt(ListsUpTo(r - 3))]
         \cup
         [flag : {FALSE}, phandle : {<<>>}, icells : {<<>>},
          comp : Comps, reg : BOOLEAN, ie : Opt(ListsUpTo(r - 3))]

NodeSize(node) == 3 + (IF node.ie = <<>> THEN 0 ELSE Len(node.ie[1]))

\* What the hardware behind a node answers: whether query_or_map maps its
\* reg window (map) and the GPIO and CCU blocks (pins), what the virtio
\* header shows (probe), and whether the driver's constructor succeeds.
Probes == {"BadMagic", "Block", "GPU", "Input", "Console", "Network"}

HwFor(node) ==
    [map   : IF node.reg THEN BOOLEAN ELSE {TRUE},
     pins  : IF "allwinner,sun20i-uart" \in node.comp THEN BOOLEAN ELSE {TRUE},
     probe : IF "virtio,mmio" \in node.comp THEN Probes ELSE {"Block"},
     init  : IF node.comp \cap {"virtio,mmio", "allwinner,sunxi-gmac"} # {}
             THEN BOOLEAN ELSE {TRUE}]

Ok(v) == [err |-> "Ok", val |-> v]

Err(e) == [err |-> e, val |-> <<>>]

Dev(tag, drv) == [tag |-> tag, drv |-> drv]

\* node.prop_u32(name)?: the value, or a decode error.
prop_u32(prop) == IF prop = <<>> THEN Err("InvalidParam") ELSE Ok(prop[1])

\* parse_interrupts(node, props)?: the cells of interrupts-extended, the
\* empty list when the node has none.
parse_interrupts(node) == Ok(IF node.ie = <<>> THEN <<>> ELSE node.ie[1])

\* parse_reg(node, props): the window, or a decode error without reg.
parse_reg(node) == IF node.reg THEN Ok(<<>>) ELSE Err("InvalidParam")

\* Lines 139-143: query_or_map(..).ok_or(NoResources).
mmap(mapped) == IF mapped THEN Ok(<<>>) ELSE Err("NoResources")

\* `parse_reg(node, props).and_then(|(paddr, size)| self.mmap(paddr, size))`.
base_vaddr(node, hw) ==
    IF parse_reg(node).err # "Ok" THEN parse_reg(node) ELSE mmap(hw.map)

\* Mutant of parse_intc: the window is required (`base_vaddr?`) before the
\* class is matched.
parse_intcEagerWindow(node, hw) ==
    LET phandle == prop_u32(node.phandle)
        interrupt_cells == prop_u32(node.icells)
        interrupts_extended == parse_interrupts(node)
    IN  IF phandle.err # "Ok" THEN Err(phandle.err)
        ELSE IF interrupt_cells.err # "Ok" THEN Err(interrupt_cells.err)
        ELSE IF interrupts_extended.err # "Ok" THEN Err(interrupts_extended.err)
        ELSE IF base_vaddr(node, hw).err # "Ok" THEN Err(base_vaddr(node, hw).err)
        ELSE IF "riscv,cpu-intc" \in node.comp
             THEN Ok(<<Dev("Irq", "Intc"), interrupts_extended.val,
                       phandle.val, interrupt_cells.val>>)
        ELSE IF "riscv,plic0" \in node.comp
             THEN Ok(<<Dev("Irq", "Plic"), interrupts_extended.val,
                       phandle.val, interrupt_cells.val>>)
        ELSE Err("NotSupported")

\* Lines 152-179. val is <<dev, interrupts_extended, phandle, interrupt_cells>>.
parse_intc(node, hw) ==
    LET phandle == prop_u32(node.phandle)
        interrupt_cells == prop_u32(node.icells)
        interrupts_extended == parse_interrupts(node)
    IN  IF phandle.err # "Ok" THEN Err(phandle.err)
        ELSE IF interrupt_cells.err # "Ok" THEN Err(interrupt_cells.err)
        ELSE IF interrupts_extended.err # "Ok" THEN Err(interrupts_extended.err)
        ELSE IF "riscv,cpu-intc" \in node.comp
             THEN Ok(<<Dev("Irq", "Intc"), interrupts_extended.val,
                       phandle.val, interrupt_cells.val>>)
        ELSE IF "riscv,plic0" \in node.comp
             THEN IF base_vaddr(node, hw).err # "Ok"
                  THEN Err(base_vaddr(node, hw).err)
                  ELSE Ok(<<Dev("Irq", "Plic"), interrupts_extended.val,
                            phandle.val, interrupt_cells.val>>)
        ELSE Err("NotSupported")

\* Lines 183-209. val is <<dev, interrupts_extended>>.
parse_virtio(node, hw) ==
    LET interrupts_extended == parse_interrupts(node)
        new(dev) == IF hw.init THEN Ok(<<dev, interrupts_extended.val>>)
                    ELSE Err("IoError")
    IN  IF interrupts_extended.err # "Ok" THEN Err(interrupts_extended.err)
        ELSE IF base_vaddr(node, hw).err # "Ok" THEN Err(base_vaddr(node, hw).err)
        ELSE IF hw.probe = "BadMagic" THEN Err("NotSupported")
        ELSE IF hw.probe = "Block" THEN new(Dev("Block", "VirtIoBlk"))
        ELSE IF hw.probe = "GPU" THEN new(Dev("Display", "VirtIoGpu"))
        ELSE IF hw.probe = "Input" THEN new(Dev("Input", "VirtIoInput"))
        ELSE IF hw.probe = "Console" THEN new(Dev("Uart", "VirtIoConsole"))
        ELSE Err("NotSupported")

\* Lines 212-236. `interrupts_extended[1]` panics on a list of fewer than
\* two cells.
parse_ethernet(node, hw) ==
    LET interrupts_extended == parse_interrupts(node)
    IN  IF interrupts_extended.err # "Ok" THEN Err(interrupts_extended.err)
        ELSE IF Len(interrupts_extended.val) < 2 THEN Err("panic")
        ELSE IF "allwinner,sunxi-gmac" \in node.comp
             THEN IF hw.init
                  THEN Ok(<<Dev("Net", "rtlx"), interrupts_extended.val>>)
                  ELSE Err("IoError")
        ELSE Err("NotSupported")

\* Lines 239-284.
parse_uart(node, hw) ==
    LET interrupts_extended == parse_interrupts(node)
    IN  IF interrupts_extended.err # "Ok" THEN Err(interrupts_extended.err)
        ELSE IF base_vaddr(node, hw).err # "Ok" THEN Err(base_vaddr(node, hw).err)
        ELSE IF "ns16550a" \in node.comp
             THEN Ok(<<Dev("Uart", "Uart16550Mmio"), interrupts_extended.val>>)
        ELSE IF "allwinner,sun20i-uart" \in node.comp
             THEN IF mmap(hw.pins).err # "Ok"
                  THEN Err(mmap(hw.pins).err)
                  ELSE Ok(<<Dev("Uart", "UartAllwinner"), interrupts_extended.val>>)
        ELSE Err("NotSupported")

\* Lines 92-101: the first class that the compatible list contains.
parse_device(node, hw) ==
    IF "virtio,mmio" \in node.comp THEN parse_virtio(node, hw)
    ELSE IF "ns16550a" \in node.comp THEN parse_uart(node, hw)
    ELSE IF "allwinner,sun20i-uart" \in node.comp THEN parse_uart(node, hw)
    ELSE IF "allwinner,sunxi-gmac" \in node.comp THEN parse_ethernet(node, hw)
    ELSE Err("NotSupported")

\* Mutant of IntcPath: the table entry is made as soon as phandle and
\* #interrupt-cells are read, before the controller is constructed.
IntcPathEagerInsert(s, node, hw) ==
    IF node.flag /\ parse_intc(node, hw).err = "Ok"
    THEN LET v == parse_intc(node, hw).val
         IN  PushIntc(s, v[1], v[2], v[3], v[4])
    ELSE IF node.flag /\ node.phandle # <<>> /\ node.icells # <<>>
         THEN [dl  |-> s.dl,
               map |-> MapInsert(s.map, node.phandle[1],
                                 Intc(Len(s.dl), node.icells[1]))]
         ELSE s

\* Lines 73-90: the controller path of the closure, on s = [dl, map].
IntcPath(s, node, hw) ==
    IF node.flag /\ parse_intc(node, hw).err = "Ok"
    THEN LET v == parse_intc(node, hw).val
         IN  PushIntc(s, v[1], v[2], v[3], v[4])
    ELSE s

\* Lines 102-106: the device path of the closure, on s = [dl, map].
DevicePath(s, node, hw) ==
    IF parse_device(node, hw).err = "Ok"
    THEN LET v == parse_device(node, hw).val
         IN  PushDev(s, v[1], v[2])
    ELSE s

\* The device class line 92-101 picks for the node.
DeviceClass(node) ==
    IF "virtio,mmio" \in node.comp THEN "virtio"
    ELSE IF "ns16550a" \in node.comp THEN "uart"
    ELSE IF "allwinner,sun20i-uart" \in node.comp THEN "uart"
    ELSE IF "allwinner,sunxi-gmac" \in node.comp THEN "ethernet"
    ELSE "none"

\* The scrutinees of the two matches of the closure (lines 74 and 102) for
\* the node: "skipped" when the node has no interrupt-controller flag.
Outcome(node, hw) ==
    [intc  |-> IF node.flag THEN parse_intc(node, hw).err ELSE "skipped",
     dev   |-> parse_device(node, hw).err,
     class |-> DeviceClass(node),
     noie  |-> node.ie = <<>>]

NoOutcome ==
    [intc |-> "skipped", dev |-> "NotSupported", class |-> "none", noie |-> TRUE]

\* No node is being parsed on its own.
NoNode == <<>>

\* Mutant of Walking: the closure may still run once the for loop started.
WalkingOrBinding == pc \in {"walk", "bind"}

\* dt.walk (line 67) has not returned yet: line 110 is not reached.
Walking == pc = "walk"

\* Mutant of WalkClosure: a node made into a controller is not tried as a
\* device.
WalkClosureDedup(s, node, hw) ==
    IF node.flag /\ parse_intc(node, hw).err = "Ok"
    THEN IntcPath(s, node, hw)
    ELSE DevicePath(s, node, hw)

\* Lines 67-107: the closure on one node.
WalkClosure(s, node, hw) == DevicePath(IntcPath(s, node, hw), node, hw)

\* The build function returns (or panics) with outcome r.
Finish(r) ==
    /\ pc' = "done"
    /\ result' = r

\* Mutant of Devices: the devices are collected back to front.
DevicesReversed(dl) == [i \in 1..Len(dl) |-> dl[Len(dl) + 1 - i].dev]

\* Line 136: the devices of dev_list without their interrupts.
Devices(dl) == [i \in 1..Len(dl) |-> dl[i].dev]

\* dt.walk hands the next node of the tree to the closure.
WalkNode ==
    /\ Walking
    /\ \E node \in Nodes(MaxTree - size) : \E hw \in HwFor(node) :
          LET s == WalkClosure([dl |-> dev_list, map |-> intc_map], node, hw)
          IN  /\ dev_list' = s.dl
              /\ intc_map' = s.map
              /\ visited' = visited + 1
              /\ size' = size + NodeSize(node)
              /\ outcome' = Outcome(node, hw)
              /\ plain' = (plain /\ ~node.flag /\ node.ie = <<>>)
              /\ IF parse_device(node, hw).err = "panic"
                 THEN Finish("panic")
                 ELSE UNCHANGED <<pc, result>>
    /\ UNCHANGED <<di, extended, calls, returned, cur>>
    /\ UNCHANGED uart_vars

\* dt.walk returns: the for loop of line 110 starts.
WalkEnd ==
    /\ Walking
    /\ pc' = "bind"
    /\ UNCHANGED <<visited, size, dev_list, intc_map, di, extended, calls,
                   result, returned, outcome, plain, cur>>
    /\ UNCHANGED uart_vars

\* -------------------------------------------------------- binding pass

\* `while let [phandle, irq_num, ..] = extended`: at least two cells.
MatchGroup(ext) == Len(ext) >= 2

\* `&extended[1 + cells..]` is in range.
SliceInRange(ext, cells) == 1 + cells <= Len(ext)

\* Mutant of Advance: the cursor stays where it is.
AdvanceStay(ext, cells) == ext

\* Mutant of Advance: the phandle cell is not counted.
AdvanceByCells(ext, cells) == SubSeq(ext, 1 + cells, Len(ext))

\* `extended = &extended[1 + cells..]`.
Advance(ext, cells) == SubSeq(ext, 2 + cells, Len(ext))

\* Mutant of HasIrq: the sentinel is not recognised.
HasIrqAlways(irq_num) == TRUE

\* Mutant of Found: only a controller that is not later in dev_list than the
\* device being bound is found (binding in one pass).
FoundSoFar(map, phandle) == phandle \in DOMAIN map /\ map[phandle].index < di

\* `if let Some(..) = intc_map.get(phandle)`.
Found(map, phandle) == phandle \in DOMAIN map

\* `if *irq_num != 0xffff_ffff`.
HasIrq(irq_num) == irq_num # SENTINEL

Call(op, index, irq_num, dev, ret) ==
    [op |-> op, intc |-> index, irq |-> irq_num, dev |-> dev, ret |-> ret]

\* Mutant of RegisterAndUnmask: the result of register_device is dropped.
RegisterAndUnmaskUnchecked(index, irq_num, ext, r1, r2) ==
    /\ calls' = calls \o <<Call("register_device", index, irq_num, di, r1),
                           Call("unmask", index, irq_num, di, r2)>>
    /\ IF r2 # "Ok"
       THEN Finish(r2) /\ UNCHANGED <<extended, returned>>
       ELSE extended' = ext /\ UNCHANGED <<pc, result, returned>>

\* Mutant of RegisterAndUnmask: every failure is turned into InvalidParam.
RegisterAndUnmaskMapErr(index, irq_num, ext, r1, r2) ==
    IF r1 # "Ok"
    THEN /\ calls' = Append(calls, Call("register_device", index, irq_num, di, r1))
         /\ Finish("InvalidParam")
         /\ UNCHANGED <<extended, returned>>
    ELSE /\ calls' = calls \o <<Call("register_device", index, irq_num, di, r1),
                                Call("unmask", index, irq_num, di, r2)>>
         /\ IF r2 # "Ok"
            THEN Finish("InvalidParam") /\ UNCHANGED <<extended, returned>>
            ELSE extended' = ext /\ UNCHANGED <<pc, result, returned>>

\* Mutant of RegisterAndUnmask: the interrupt is unmasked before the device
\* is registered.
RegisterAndUnmaskSwapped(index, irq_num, ext, r1, r2) ==
    IF r1 # "Ok"
    THEN /\ calls' = Append(calls, Call("unmask", index, irq_num, di, r1))
         /\ Finish(r1)
         /\ UNCHANGED <<extended, returned>>
    ELSE /\ calls' = calls \o <<Call("unmask", index, irq_num, di, r1),
                                Call("register_device", index, irq_num, di, r2)>>
         /\ IF r2 # "Ok"
            THEN Finish(r2) /\ UNCHANGED <<extended, returned>>
            ELSE extended' = ext /\ UNCHANGED <<pc, result, returned>>

\* Lines 120-121: register_device(irq_num, device)?; unmask(irq_num)?.
\* r1 and r2 are what the controller answers.
RegisterAndUnmask(index, irq_num, ext, r1, r2) ==
    IF r1 # "Ok"
    THEN /\ calls' = Append(calls, Call("register_device", index, irq_num, di, r1))
         /\ Finish(r1)
         /\ UNCHANGED <<extended, returned>>
    ELSE /\ calls' = calls \o <<Call("register_device", index, irq_num, di, r1),
                                Call("unmask", index, irq_num, di, r2)>>
         /\ IF r2 # "Ok"
            THEN Finish(r2) /\ UNCHANGED <<extended, returned>>
            ELSE extended' = ext /\ UNCHANGED <<pc, result, returned>>

\* Lines 110-111 and the end of the for loop: the while-let pattern does not
\* match, so the loop goes to the next device, or build returns Ok.
NextDevice ==
    /\ pc = "bind"
    /\ ~MatchGroup(extended)
    /\ IF di < Len(dev_list)
       THEN /\ di' = di + 1
            /\ extended' = dev_list[di + 1].ie
            /\ UNCHANGED <<pc, result, returned>>
       ELSE /\ Finish("Ok")
            /\ returned' = Devices(dev_list)
            /\ UNCHANGED <<di, extended>>
    /\ UNCHANGED <<visited, size, dev_list, intc_map, calls, outcome, plain, cur>>
    /\ UNCHANGED uart_vars

\* Lines 113-132: one iteration of the while-let loop.
BindGroup ==
    /\ pc = "bind"
    /\ MatchGroup(extended)
    /\ LET phandle == extended[1]
           irq_num == extended[2]
       IN  IF Found(intc_map, phandle)
           THEN LET index == intc_map[phandle].index
                    cells == intc_map[phandle].cells
                IN  IF ~SliceInRange(extended, cells)
                    THEN \* slice index out of range: panic
                         Finish("panic") /\ UNCHANGED <<extended, calls, returned>>
                    ELSE IF dev_list[index + 1].dev.tag = "Irq"
                         THEN IF HasIrq(irq_num)
                              THEN \E r1, r2 \in {"Ok"} \cup CallErrors :
                                      RegisterAndUnmask(index, irq_num,
                                          Advance(extended, cells), r1, r2)
                              ELSE /\ extended' = Advance(extended, cells)
                                   /\ UNCHANGED <<pc, result, calls, returned>>
                         ELSE \* unreachable!()
                              Finish("unreachable")
                                  /\ UNCHANGED <<extended, calls, returned>>
           ELSE \* no such node with this phandle as the interrupt-parent
                Finish("InvalidParam") /\ UNCHANGED <<extended, calls, returned>>
    /\ UNCHANGED <<visited, size, dev_list, intc_map, di, outcome, plain, cur>>
    /\ UNCHANGED uart_vars

NextBind == NextDevice \/ BindGroup

\* ------------------------------------------- inputs of the binding pass

\* What one node adds to dev_list: an interrupt controller with its phandle
\* and #interrupt-cells, or an ordinary device.
Discovered ==
    [kind : {"intc"}, phandle : Phandles, cells : CellWidths]
        \cup {[kind |-> "dev", phandle |-> 0, cells |-> 0]}

\* Every way to give n devices interrupts_extended lists of at most b cells
\* together, as a sequence of n lists.
RECURSIVE WireLists(_, _)
WireLists(n, b) ==
    IF n = 0
    THEN {<<>>}
    ELSE UNION { { <<ie>> \o rest : ie \in Lists(k), rest \in WireLists(n - 1, b - k) }
                 : k \in 0..b }

\* The (dev_list, intc_map) the walk leaves behind when its nodes add, in
\* order, the devices ds with the lists ws: the pushes of lines 76-83 and 103.
RECURSIVE Discovery(_, _)
Discovery(ds, ws) ==
    IF Len(ds) = 0
    THEN [dl |-> <<>>, map |-> EmptyMap]
    ELSE LET n == Len(ds)
             s == Discovery(SubSeq(ds, 1, n - 1), SubSeq(ws, 1, n - 1))
         IN  IF ds[n].kind = "intc"
             THEN PushIntc(s, Dev("Irq", "Plic"), ws[n], ds[n].phandle, ds[n].cells)
             ELSE PushDev(s, Dev("Uart", "Uart16550Mmio"), ws[n])

InitBind ==
    /\ pc = "bind"
    /\ visited = 0
    /\ size = 0
    /\ returned = <<>>
    /\ outcome = NoOutcome
    /\ \E n \in 0..(MaxInput \div 2) :
          \E ds \in [1..n -> Discovered], ws \in WireLists(n, MaxInput - 2 * n) :
             /\ dev_list = Discovery(ds, ws).dl
             /\ intc_map = Discovery(ds, ws).map
             /\ plain = \A d \in 1..n : ds[d].kind = "dev" /\ ws[d] = <<>>
    /\ cur = NoNode
    /\ UartInit
    /\ di = 0
    /\ extended = <<>>
    /\ calls = <<>>
    /\ result = "running"

SpecBind == InitBind /\ [][NextBind]_vars

\* build runs to completion: the for loop is not suspended and nothing else
\* runs until it returns, so a step that can be taken is taken.
SpecBindFair == InitBind /\ [][NextBind]_vars /\ WF_vars(NextBind)

\* ------------------------------------------------------- the whole build

\* Lines 63-64: both collections start empty.
Init ==
    /\ pc = "walk"
    /\ visited = 0
    /\ size = 0
    /\ dev_list = <<>>
    /\ intc_map = EmptyMap
    /\ di = 0
    /\ extended = <<>>
    /\ calls = <<>>
    /\ result = "running"
    /\ returned = <<>>
    /\ outcome = NoOutcome
    /\ plain = TRUE
    /\ cur = NoNode
    /\ UartInit

Next == WalkNode \/ WalkEnd \/ NextDevice \/ BindGroup

Spec == Init /\ [][Next]_vars

\* ------------------------------------------------ the closure on one node

\* The closure of lines 67-107 is about to be applied to a node of the tree,
\* with both collections still empty.
InitNode ==
    /\ pc = "node"
    /\ visited = 0
    /\ size = 0
    /\ dev_list = <<>>
    /\ intc_map = EmptyMap
    /\ di = 0
    /\ extended = <<>>
    /\ calls = <<>>
    /\ result = "running"
    /\ returned = <<>>
    /\ outcome = NoOutcome
    /\ plain = TRUE
    /\ \E node \in Nodes(MaxTree) : \E hw \in HwFor(node) :
          cur = [node |-> node, hw |-> hw]
    /\ UartInit

\* Lines 67-107 on the node cur.
ParseNode ==
    /\ pc = "node"
    /\ LET s == WalkClosure([dl |-> dev_list, map |-> intc_map], cur.node, cur.hw)
       IN  /\ dev_list' = s.dl
           /\ intc_map' = s.map
    /\ visited' = visited + 1
    /\ size' = size + NodeSize(cur.node)
    /\ outcome' = Outcome(cur.node, cur.hw)
    /\ plain' = (plain /\ ~cur.node.flag /\ cur.node.ie = <<>>)
    /\ IF parse_device(cur.node, cur.hw).err = "panic"
       THEN Finish("panic")
       ELSE pc' = "parsed" /\ UNCHANGED result
    /\ UNCHANGED <<di, extended, calls, returned, cur>>
    /\ UNCHANGED uart_vars

SpecNode == InitNode /\ [][ParseNode]_vars

\* --------------------------------------------------------- UartAllwinner

build_vars == <<pc, visited, size, dev_list, intc_map, di, extended, calls,
                result, returned, outcome, plain, cur>>

\* The strings handed to write_str.
Strs == UNION {[1..k -> Bytes] : k \in 0..MaxStr}

\* The calls of UartScheme a thread can make.
UartCalls ==
    {[op |-> "try_recv", s |-> <<>>]}
        \cup {[op |-> "send", s |-> <<b>>] : b \in Bytes}
        \cup {[op |-> "write_str", s |-> s] : s \in Strs}

RECURSIVE CallsStarted(_)
CallsStarted(T) ==
    IF T = {} THEN 0
    ELSE LET t == CHOOSE x \in T : TRUE
         IN  thr[t].n + CallsStarted(T \ {t})

\* Lines 131-137: the sends of write_str for the byte b.
Arm(b) == IF b = LF THEN <<CR, LF>> ELSE <<b>>

\* Lines 122-124: the byte is written to THR by thread t in its current call.
WriteThr(t, b) == tx' = Append(tx, [t |-> t, call |-> thr[t].n, byte |-> b])

\* Mutant of CanLock: the lock is handed out without being free.
CanLockAlways(t) == TRUE

\* spin::Mutex::lock spins until the lock is free.
CanLock(t) == mutex = 0

\* A thread calls try_recv, send or write_str on the shared UartAllwinner.
Invoke(t) ==
    /\ thr[t].pc = "idle"
    /\ CallsStarted(Threads) < MaxCalls
    /\ \E c \in UartCalls :
          thr' = [thr EXCEPT ![t] = [pc |-> "lock", op |-> c.op, s |-> c.s,
                                     arg |-> c.s, pend |-> <<>>, n |-> @.n + 1]]
    /\ UNCHANGED <<mutex, tx>>
    /\ UNCHANGED build_vars

\* Lines 56, 60, 64: self.inner.lock().
Lock(t) ==
    /\ thr[t].pc = "lock"
    /\ CanLock(t)
    /\ mutex' = t
    /\ thr' = [thr EXCEPT ![t].pc = "in"]
    /\ UNCHANGED tx
    /\ UNCHANGED build_vars

\* Lines 109-116: Inner::try_recv reads LSR and, when a byte is ready, RBR.
InnerTryRecv(t) ==
    /\ thr[t].pc = "in"
    /\ thr[t].op = "try_recv"
    /\ thr' = [thr EXCEPT ![t].pc = "ret"]
    /\ UNCHANGED <<mutex, tx>>
    /\ UNCHANGED build_vars

\* Lines 119-126: Inner::send waits for THRE and writes the byte to THR.
InnerSend(t) ==
    /\ thr[t].pc = "in"
    /\ thr[t].op = "send"
    /\ WriteThr(t, thr[t].arg[1])
    /\ thr' = [thr EXCEPT ![t].pc = "ret", ![t].arg = <<>>]
    /\ UNCHANGED mutex
    /\ UNCHANGED build_vars

\* Lines 129-140: one self.send(..)? of Inner::write_str, or its Ok(()).
InnerWriteStr(t) ==
    /\ thr[t].pc = "in"
    /\ thr[t].op = "write_str"
    /\ IF thr[t].pend # <<>>
       THEN /\ WriteThr(t, Head(thr[t].pend))
            /\ thr' = [thr EXCEPT ![t].pend = Tail(@)]
       ELSE IF thr[t].arg # <<>>
            THEN /\ WriteThr(t, Head(Arm(Head(thr[t].arg))))
                 /\ thr' = [thr EXCEPT ![t].pend = Tail(Arm(Head(thr[t].arg))),
                                       ![t].arg = Tail(@)]
            ELSE /\ thr' = [thr EXCEPT ![t].pc = "ret"]
                 /\ UNCHANGED tx
    /\ UNCHANGED mutex
    /\ UNCHANGED build_vars

\* The MutexGuard of lines 56, 60, 64 is dropped at the end of the statement.
Unlock(t) ==
    /\ thr[t].pc = "ret"
    /\ mutex' = 0
    /\ thr' = [thr EXCEPT ![t].pc = "idle"]
    /\ UNCHANGED tx
    /\ UNCHANGED build_vars

\* UartAllwinner::new has returned and no build is running.
InitUart ==
    /\ pc = "uart"
    /\ visited = 0
    /\ size = 0
    /\ dev_list = <<>>
    /\ intc_map = EmptyMap
    /\ di = 0
    /\ extended = <<>>
    /\ calls = <<>>
    /\ result = "running"
    /\ returned = <<>>
    /\ outcome = NoOutcome
    /\ plain = TRUE
    /\ cur = NoNode
    /\ UartInit

NextUart ==
    \E t \in Threads :
        \/ Invoke(t)
        \/ Lock(t)
        \/ InnerTryRecv(t)
        \/ InnerSend(t)
        \/ InnerWriteStr(t)
        \/ Unlock(t)

SpecUart == InitUart /\ [][NextUart]_vars

\* ------------------------------------------------- what the claims refer to

Last(q) == q[Len(q)]

IsPrefix(a, b) == Len(a) <= Len(b) /\ a = SubSeq(b, 1, Len(a))

\* A wire list that is a concatenation of groups [phandle, c0, .., c(k-1)]
\* with phandle in the table and k >= 1 the width stored for it.
RECURSIVE WellFormedList(_, _)
WellFormedList(ie, map) ==
    \/ ie = <<>>
    \/ /\ ie[1] \in DOMAIN map
       /\ map[ie[1]].cells >= 1
       /\ Len(ie) >= 1 + map[ie[1]].cells
       /\ WellFormedList(SubSeq(ie, 2 + map[ie[1]].cells, Len(ie)), map)

WellFormedInput ==
    \A d \in 1..Len(dev_list) : WellFormedList(dev_list[d].ie, intc_map)

\* The calls a well-formed wire list of device d asks for, group by group:
\* register_device(c0, d) and unmask(c0) on the controller the table names,
\* nothing for a group whose c0 is the sentinel.
RECURSIVE GroupCalls(_, _, _)
GroupCalls(ie, map, d) ==
    IF ie = <<>>
    THEN <<>>
    ELSE LET k == map[ie[1]].cells
             c == map[ie[1]].index
         IN  (IF ie[2] = SENTINEL
              THEN <<>>
              ELSE << [op |-> "register_device", intc |-> c, irq |-> ie[2], dev |-> d],
                      [op |-> "unmask", intc |-> c, irq |-> ie[2], dev |-> d] >>)
             \o GroupCalls(SubSeq(ie, 2 + k, Len(ie)), map, d)

\* The calls of the devices 1..n of dl, in device-list order.
RECURSIVE ListCalls(_, _, _)
ListCalls(dl, map, n) ==
    IF n = 0 THEN <<>>
    ELSE ListCalls(dl, map, n - 1) \o GroupCalls(dl[n].ie, map, n)

\* The calls made so far, without their results.
CallsMade ==
    [k \in 1..Len(calls) |->
        [op |-> calls[k].op, intc |-> calls[k].intc, irq |-> calls[k].irq,
         dev |-> calls[k].dev]]

NoCallFailed == \A k \in 1..Len(calls) : calls[k].ret = "Ok"

\* The resolver stands on a group whose phandle is not in the table.
UnknownAtCursor == MatchGroup(extended) /\ extended[1] \notin DOMAIN intc_map

\* ---------------------------------------------------------------- claims

\* C1: on well-formed wire lists the resolver segments every list by the
\* referenced controller's width and makes, for each group whose c0 is not
\* the sentinel, exactly register_device(c0, device) then unmask(c0) on the
\* controller at the table's index, in device-list order then group order:
\* the calls made are always a prefix of that sequence, all of it when build
\* returns Ok, and build stops early only because a controller refused a call.
C1_SegmentsByControllerWidth ==
    WellFormedInput =>
        /\ IsPrefix(CallsMade, ListCalls(dev_list, intc_map, Len(dev_list)))
        /\ result = "Ok" =>
              CallsMade = ListCalls(dev_list, intc_map, Len(dev_list))
        /\ result \notin {"Ok", "running"} =>
              calls # <<>> /\ Last(calls).ret = result /\ result \in CallErrors

\* C1 witness: build returned Ok for a cascaded controller whose own list
\* holds a group of width 1 followed by a group of width 2.
C1_Witness ==
    /\ result = "Ok"
    /\ WellFormedInput
    /\ \E d \in 1..Len(dev_list) :
          LET ie == dev_list[d].ie
          IN  /\ dev_list[d].dev.tag = "Irq"
              /\ Len(ie) = 5
              /\ intc_map[ie[1]].cells = 1
              /\ intc_map[ie[3]].cells = 2
              /\ intc_map[ie[1]].index # intc_map[ie[3]].index
    /\ Len(calls) = 4

\* C2 (as claimed): when the resolver meets a group whose phandle is not in
\* the table, build returns InvalidParam and no register_device or unmask
\* call has been made for any device.
C2_AllOrNothing ==
    (pc = "done" /\ UnknownAtCursor) => (result = "InvalidParam" /\ calls = <<>>)

\* C3: a group whose interrupt number is the sentinel makes no call and
\* moves the cursor by exactly 1 + cells, and on well-formed lists the calls
\* of a completed build are those of the groups that are not sentinel groups.
C3_SentinelGroupSkipped ==
    /\ [][ ( /\ pc = "bind"
             /\ MatchGroup(extended)
             /\ extended[1] \in DOMAIN intc_map
             /\ extended[2] = SENTINEL
             /\ Len(extended) >= 1 + intc_map[extended[1]].cells )
           => ( /\ calls' = calls
                /\ Len(extended') = Len(extended) - (1 + intc_map[extended[1]].cells)
                /\ extended' = SubSeq(extended, 2 + intc_map[extended[1]].cells,
                                      Len(extended))
                /\ pc' = "bind"
                /\ result' = "running" ) ]_vars
    /\ [](WellFormedInput /\ result = "Ok" =>
            /\ CallsMade = ListCalls(dev_list, intc_map, Len(dev_list))
            /\ \A k \in 1..Len(calls) : calls[k].irq # SENTINEL)

\* C3 witness: build returned Ok for a list that starts with a sentinel group
\* of a width-1 controller, and the group after it was registered.
C3_Witness ==
    /\ result = "Ok"
    /\ \E d \in 1..Len(dev_list) :
          LET ie == dev_list[d].ie
          IN  /\ Len(ie) = 4
              /\ ie[1] \in DOMAIN intc_map
              /\ intc_map[ie[1]].cells = 1
              /\ ie[2] = SENTINEL
              /\ ie[4] # SENTINEL
              /\ \E k \in 1..Len(calls) :
                    /\ calls[k].dev = d
                    /\ calls[k].irq = ie[4]
                    /\ calls[k].op = "register_device"

\* C5 (as claimed): whenever at least one cell remains at the cursor and the
\* cell at the cursor is not a key of the table, build returns InvalidParam.
C5_UnknownHandleFails ==
    [][ (pc = "bind" /\ di >= 1 /\ Len(extended) >= 1
            /\ extended[1] \notin DOMAIN intc_map)
        => (pc' = "done" /\ result' = "InvalidParam") ]_vars

\* C6: a call that fails is the last call build makes, and build returns
\* that failure: no unmask follows a failed register_device, and no call
\* follows for the rest of the device's groups or for later devices.
C6_FailedCallAborts ==
    \A k \in 1..Len(calls) :
        calls[k].ret # "Ok" =>
            /\ k = Len(calls)
            /\ pc = "done"
            /\ result \notin {"Ok", "running", "panic"}

\* C6 witness: after one group was registered and unmasked, register_device
\* failed for the next one while a later device was still to come.
C6_Witness ==
    /\ Len(calls) = 3
    /\ calls[3].op = "register_device"
    /\ calls[3].ret # "Ok"
    /\ di < Len(dev_list)
    /\ Len(dev_list[Len(dev_list)].ie) >= 2

\* C7 (as claimed): every error build returns is InvalidParam.
C7_AlwaysInvalidParam == result \in DeviceError => result = "InvalidParam"

\* C7 (amended): an unknown phandle makes build return InvalidParam; a
\* failed register_device or unmask makes build return that call's own error.
C7_ErrorReturned ==
    result \in DeviceError =>
        IF calls # <<>> /\ Last(calls).ret # "Ok"
        THEN result = Last(calls).ret
        ELSE result = "InvalidParam" /\ UnknownAtCursor

\* C7 witness: build returned the AlreadyExists of a failed unmask.
C7_Witness ==
    /\ result = "AlreadyExists"
    /\ Last(calls).op = "unmask"
    /\ Last(calls).ret = "AlreadyExists"

\* The permutations of 1..n.
Perms(n) == {f \in [1..n -> 1..n] : \A i, j \in 1..n : i # j => f[i] # f[j]}

\* Every controller of dev_list is the one the table names for its phandle:
\* no two controller nodes declared the same phandle.
UniquePhandles ==
    \A d \in 1..Len(dev_list) :
        dev_list[d].dev.tag = "Irq" =>
            \E p \in DOMAIN intc_map : intc_map[p].index = d - 1

\* dev_list and intc_map as the walk leaves them when the nodes are visited
\* in the order f: position k holds the device that is now at f[k].
ReorderedList(f) == [k \in 1..Len(dev_list) |-> dev_list[f[k]]]

ReorderedMap(f) ==
    [p \in DOMAIN intc_map |->
        Intc((CHOOSE k \in 1..Len(dev_list) : f[k] = intc_map[p].index + 1) - 1,
             intc_map[p].cells)]

\* The registrations of a sequence of calls made under the order f, naming
\* controller and device by their places in dev_list as it is now.
Registrations(cs, f) ==
    { [op |-> cs[k].op, intc |-> f[cs[k].intc + 1], irq |-> cs[k].irq,
       dev |-> f[cs[k].dev]] : k \in 1..Len(cs) }

Identity == [k \in 1..Len(dev_list) |-> k]

\* C4: with every phandle declared once and every controller accepting its
\* calls, build on well-formed lists returns Ok whether a device comes before
\* or after the controller it names, and the registrations it makes are those
\* of every other visiting order of the same nodes.
C4_OrderIndependent ==
    (WellFormedInput /\ UniquePhandles /\ pc = "done" /\ NoCallFailed) =>
        /\ result = "Ok"
        /\ \A f \in Perms(Len(dev_list)) :
              Registrations(ListCalls(ReorderedList(f), ReorderedMap(f),
                                      Len(dev_list)), f)
                  = Registrations(CallsMade, Identity)

\* C4 witness: build returned Ok after registering a device with a
\* controller that comes later in dev_list.
C4_Witness ==
    /\ result = "Ok"
    /\ WellFormedInput
    /\ UniquePhandles
    /\ \E k \in 1..Len(calls) : calls[k].intc + 1 > calls[k].dev

\* The errors a path of the closure recovers from.
NodeErrors == {"NotSupported", "InvalidParam", "NoResources", "IoError"}

\* The step of the walk over one node.
WalkStep == pc = "walk" /\ visited' = visited + 1

\* C8: a path of the closure that fails with a node-level error adds nothing
\* to dev_list or intc_map, whatever the other path of the same node adds;
\* the walk goes on and build returns no error because of it.
C8_NodeFailureIsLocal ==
    [][ WalkStep =>
          /\ outcome'.dev # "panic" => (pc' = "walk" /\ result' = "running")
          /\ outcome'.intc \in NodeErrors =>
                /\ intc_map' = intc_map
                /\ IF outcome'.dev = "Ok"
                   THEN /\ Len(dev_list') = Len(dev_list) + 1
                        /\ IsPrefix(dev_list, dev_list')
                        /\ Last(dev_list').dev.tag # "Irq"
                   ELSE dev_list' = dev_list
          /\ outcome'.dev \in NodeErrors =>
                IF outcome'.intc = "Ok"
                THEN /\ Len(dev_list') = Len(dev_list) + 1
                     /\ IsPrefix(dev_list, dev_list')
                     /\ Last(dev_list').dev.tag = "Irq"
                ELSE dev_list' = dev_list /\ intc_map' = intc_map ]_vars

\* C8 witness: build returned Ok with the one device of the first node after
\* both paths failed on the second node (a decode error and a mapping failure).
C8_Witness ==
    /\ result = "Ok"
    /\ visited = 2
    /\ outcome.intc = "InvalidParam"
    /\ outcome.dev = "NoResources"
    /\ Len(returned) = 1

\* C9: the list build returns with Ok is dev_list without the interrupts,
\* entry by entry; the walk only appends to dev_list, the controller's entry
\* before the device's entry of the same node, one entry per path that
\* succeeded; the binding pass leaves dev_list as it is.
C9_ReturnsDiscoveryOrder ==
    /\ [](result = "Ok" =>
            /\ Len(returned) = Len(dev_list)
            /\ \A i \in 1..Len(dev_list) : returned[i] = dev_list[i].dev)
    /\ [][pc # "walk" => dev_list' = dev_list]_vars
    /\ [][ WalkStep =>
             /\ IsPrefix(dev_list, dev_list')
             /\ Len(dev_list') = Len(dev_list)
                    + (IF outcome'.intc = "Ok" THEN 1 ELSE 0)
                    + (IF outcome'.dev = "Ok" THEN 1 ELSE 0)
             /\ (outcome'.intc = "Ok" /\ outcome'.dev = "Ok") =>
                    /\ dev_list'[Len(dev_list) + 1].dev.tag = "Irq"
                    /\ dev_list'[Len(dev_list) + 2].dev.tag # "Irq" ]_vars

\* C9 witness: build returned Ok, after registrations, the two entries of a
\* node that is both a controller and a device.
C9_Witness ==
    /\ result = "Ok"
    /\ outcome.intc = "Ok"
    /\ outcome.dev = "Ok"
    /\ Len(returned) = 2
    /\ returned[1].tag = "Irq"
    /\ returned[2].tag = "Uart"
    /\ calls # <<>>

\* C10 (as claimed): a node of a supported device class without
\* interrupts-extended does not make build fail, and the device made of it
\* carries an empty wire list.
C10_NoInterruptsStillCreated ==
    (visited > 0 /\ outcome.noie /\ outcome.class # "none") =>
        /\ outcome.dev # "panic"
        /\ result # "panic"
        /\ outcome.dev = "Ok" => Last(dev_list).ie = <<>>

\* C11 (as claimed): for a tree without interrupt-controller nodes and
\* without interrupts-extended properties, build succeeds, makes no
\* register_device or unmask call, and returns only ordinary devices.
C11_PlainTreeSucceeds ==
    plain =>
        /\ result \in {"running", "Ok"}
        /\ calls = <<>>
        /\ result = "Ok" => \A i \in 1..Len(returned) : returned[i].tag # "Irq"

\* The resolver stands on a group it will register: the phandle is in the
\* table, the slice is in range and the interrupt number is not the sentinel.
AtLiveGroup ==
    /\ pc = "bind"
    /\ MatchGroup(extended)
    /\ extended[1] \in DOMAIN intc_map
    /\ SliceInRange(extended, intc_map[extended[1]].cells)
    /\ extended[2] # SENTINEL

SameTarget(a, b) == a.intc = b.intc /\ a.irq = b.irq /\ a.dev = b.dev

\* C12: for a group that is not a sentinel group the resolver calls
\* register_device(irq, device) first and, when that succeeded, unmask(irq)
\* next, on the same controller with the same interrupt number; an unmask is
\* always directly preceded by the successful register_device of the same
\* interrupt on the same controller.
C12_RegisterThenUnmask ==
    /\ [](\A k \in 1..Len(calls) :
            /\ calls[k].op = "unmask" =>
                  /\ k > 1
                  /\ calls[k - 1].op = "register_device"
                  /\ calls[k - 1].ret = "Ok"
                  /\ SameTarget(calls[k - 1], calls[k])
            /\ (calls[k].op = "register_device" /\ calls[k].ret = "Ok") =>
                  /\ k < Len(calls)
                  /\ calls[k + 1].op = "unmask"
                  /\ SameTarget(calls[k], calls[k + 1]))
    /\ [][ AtLiveGroup =>
             /\ Len(calls') > Len(calls)
             /\ calls'[Len(calls) + 1].op = "register_device"
             /\ calls'[Len(calls) + 1].intc = intc_map[extended[1]].index
             /\ calls'[Len(calls) + 1].irq = extended[2]
             /\ calls'[Len(calls) + 1].dev = di ]_vars

\* C12 witness: build returned Ok after two groups were registered and
\* unmasked on two different controllers.
C12_Witness ==
    /\ result = "Ok"
    /\ Len(calls) = 4
    /\ calls[2].op = "unmask"
    /\ calls[4].op = "unmask"
    /\ calls[1].intc # calls[3].intc

\* C13: after every node of the walk and throughout the binding pass, every
\* entry {index, cells} of intc_map has index < dev_list.len() and
\* dev_list[index] is a Device::Irq, so the unreachable!() of line 124 is
\* never reached; ordinary devices between controllers, nodes pushed on both
\* paths and controllers declaring the same phandle included.
C13_TableNamesControllers ==
    /\ \A p \in DOMAIN intc_map :
          /\ intc_map[p].index < Len(dev_list)
          /\ dev_list[intc_map[p].index + 1].dev.tag = "Irq"
    /\ result # "unreachable"

\* C13 witness: an ordinary device was pushed first, then a node went
\* through both paths, and the table names the controller entry in between.
C13_Witness ==
    /\ pc \in {"bind", "done"}
    /\ visited = 2
    /\ Len(dev_list) = 3
    /\ dev_list[1].dev.tag = "Uart"
    /\ dev_list[2].dev.tag = "Irq"
    /\ dev_list[3].dev.tag = "Uart"
    /\ \E p \in DOMAIN intc_map : intc_map[p].index = 1

\* Offset from the cursor of the cell the pattern of line 113 binds to
\* irq_num: the phandle is at offset 0.
IrqOffset == 1

\* C14 (as claimed): the interrupt number of every call is the first of the
\* `cells` cells the group consumes after its phandle: it lies at a cursor
\* offset in [1, cells], for every width including 0, so it is never a cell
\* of the next group.
C14_IrqWithinGroup ==
    [][ calls' # calls =>
          /\ \A k \in (Len(calls) + 1)..Len(calls') :
                calls'[k].irq = extended[1 + IrqOffset]
          /\ IrqOffset \in 1..intc_map[extended[1]].cells ]_vars

\* C15: no register_device or unmask call is made while the walk is still
\* visiting nodes, and once the walk is over neither dev_list nor intc_map
\* changes: at the first call both are complete.
C15_TwoPhases ==
    /\ [](calls # <<>> => pc # "walk")
    /\ [][pc = "walk" => calls' = calls]_vars
    /\ [][pc # "walk" =>
             /\ dev_list' = dev_list
             /\ intc_map' = intc_map
             /\ visited' = visited ]_vars

\* C15 witness: the first registration was made, for the controller entry of
\* a node that the walk pushed on both paths, with the binding still going on.
C15_Witness ==
    /\ pc = "bind"
    /\ Len(calls) = 2
    /\ visited >= 1
    /\ Len(dev_list) = 2
    /\ calls[1].dev = 1
    /\ DOMAIN intc_map # {}

\* C16: the device path runs for every node whatever the controller path
\* did. A node that succeeds on both is pushed twice, the controller entry
\* first and the device entry next with the same wire list, the table names
\* the controller entry, and the binding pass resolves the wire list once
\* per entry: every call made for the first entry is made again for the
\* second, so a group that is not a sentinel group gives two
\* register_device/unmask pairs.
C16_BothPathsBothEntries ==
    /\ [][ (WalkStep /\ outcome'.dev = "Ok") =>
             /\ Len(dev_list') > Len(dev_list)
             /\ Last(dev_list').dev.tag # "Irq" ]_vars
    /\ [][ (WalkStep /\ outcome'.intc = "Ok" /\ outcome'.dev = "Ok") =>
             /\ Len(dev_list') = Len(dev_list) + 2
             /\ IsPrefix(dev_list, dev_list')
             /\ dev_list'[Len(dev_list) + 1].dev.tag = "Irq"
             /\ dev_list'[Len(dev_list) + 2].dev.tag # "Irq"
             /\ dev_list'[Len(dev_list) + 1].ie = dev_list'[Len(dev_list) + 2].ie
             /\ \E p \in DOMAIN intc_map' :
                   intc_map'[p].index = Len(dev_list) ]_vars
    /\ []( (result = "Ok" /\ visited = 1 /\ Len(dev_list) = 2) =>
             /\ Len(calls) % 2 = 0
             /\ \A k \in 1..(Len(calls) \div 2) :
                   LET a == calls[k]
                       b == calls[Len(calls) \div 2 + k]
                   IN  /\ a.dev = 1 /\ b.dev = 2
                       /\ a.op = b.op /\ a.irq = b.irq
                       /\ a.intc = 0 /\ b.intc = 0
             /\ WellFormedInput =>
                   Len(calls) = 2 * Len(GroupCalls(dev_list[1].ie, intc_map, 1)) )

\* C16 witness: build returned Ok for a single node that is both a
\* controller and a UART and names itself in its wire list: one group, two
\* register_device/unmask pairs.
C16_Witness ==
    /\ result = "Ok"
    /\ visited = 1
    /\ Len(dev_list) = 2
    /\ WellFormedInput
    /\ Len(calls) = 4
    /\ calls[1].dev = 1
    /\ calls[3].dev = 2

\* The closure was applied to a node that carries the interrupt-controller
\* flag, a phandle and #interrupt-cells.
ParsedController ==
    /\ pc = "parsed"
    /\ cur.node.flag
    /\ cur.node.phandle # <<>>
    /\ cur.node.icells # <<>>

\* The node cur was made into the controller dev and entered in the table.
EnteredAs(dev) ==
    /\ outcome.intc = "Ok"
    /\ dev_list[1].dev = dev
    /\ DOMAIN intc_map = {cur.node.phandle[1]}
    /\ intc_map[cur.node.phandle[1]] = Intc(0, cur.node.icells[1])

\* C17: a riscv,cpu-intc controller is constructed and entered in the table
\* whether reg is absent, present and mapped, or present with a mapping that
\* fails; a riscv,plic0 controller is constructed only when reg is present
\* and the mapping succeeds, and otherwise the node fails with a node-level
\* error and leaves no controller behind.
C17_WindowOnlyWhereNeeded ==
    ParsedController =>
        /\ "riscv,cpu-intc" \in cur.node.comp => EnteredAs(Dev("Irq", "Intc"))
        /\ ("riscv,plic0" \in cur.node.comp /\ "riscv,cpu-intc" \notin cur.node.comp) =>
              IF cur.node.reg /\ cur.hw.map
              THEN EnteredAs(Dev("Irq", "Plic"))
              ELSE /\ outcome.intc = (IF cur.node.reg THEN "NoResources"
                                      ELSE "InvalidParam")
                   /\ intc_map = EmptyMap
                   /\ \A i \in 1..Len(dev_list) : dev_list[i].dev.tag # "Irq"

\* C17 witness: a riscv,cpu-intc node whose reg window could not be mapped
\* was made into a controller.
C17_Witness ==
    /\ ParsedController
    /\ "riscv,cpu-intc" \in cur.node.comp
    /\ cur.node.reg
    /\ ~cur.hw.map
    /\ EnteredAs(Dev("Irq", "Intc"))

\* C18 (as claimed): whenever the phandle at the cursor is found in the
\* table, at least 1 + cells cells remain at the cursor, so the slice of line
\* 115 is never out of range and build ends by returning Ok or Err, also for
\* a list whose last group is shorter than 1 + cells.
C18_CursorStaysInRange ==
    /\ (pc = "bind" /\ MatchGroup(extended) /\ extended[1] \in DOMAIN intc_map) =>
          SliceInRange(extended, intc_map[extended[1]].cells)
    /\ result # "panic"

\* C19: the binding pass terminates. Every iteration of the while-let loop
\* ends build with an error (or with the out-of-range slice of line 115,
\* which also ends it) or strictly shortens the remaining wire list; every
\* exhausted cursor moves the for loop to the next device or makes build
\* return; so build always ends.
C19_BindingTerminates ==
    /\ <>(pc = "done")
    /\ [][ (pc = "bind" /\ MatchGroup(extended)) =>
             \/ pc' = "done" /\ result' \in DeviceError
             \/ /\ pc' = "done" /\ result' = "panic"
                /\ extended[1] \in DOMAIN intc_map
                /\ ~SliceInRange(extended, intc_map[extended[1]].cells)
             \/ /\ pc' = "bind"
                /\ Len(extended') < Len(extended)
                /\ di' = di ]_vars
    /\ [][ (pc = "bind" /\ ~MatchGroup(extended)) =>
             \/ pc' = "done" /\ result' = "Ok" /\ di = Len(dev_list)
             \/ pc' = "bind" /\ di' = di + 1 ]_vars

\* C19 witness: build returned Ok after going through three devices and
\* registering two groups.
C19_Witness ==
    /\ pc = "done"
    /\ result = "Ok"
    /\ Len(dev_list) = 3
    /\ di = 3
    /\ Len(calls) = 4

\* Thread t is between lock() and the drop of the guard: inside Inner.
Inside(t) == thr[t].pc \in {"in", "ret"}

\* What write_str(s) has to put on the wire: s with a carriage return in
\* front of every line feed.
RECURSIVE Encode(_)
Encode(s) ==
    IF s = <<>> THEN <<>>
    ELSE (IF Head(s) = LF THEN <<CR, LF>> ELSE <<Head(s)>>) \o Encode(Tail(s))

\* The bytes of tx[1..n] that thread t wrote in its current call.
RECURSIVE Emitted(_, _)
Emitted(t, n) ==
    IF n = 0 THEN <<>>
    ELSE Emitted(t, n - 1)
           \o (IF tx[n].t = t /\ tx[n].call = thr[t].n THEN <<tx[n].byte>> ELSE <<>>)

SameCall(a, b) == a.t = b.t /\ a.call = b.call

\* C20: at most one thread is inside Inner's register access, and it holds
\* the lock; the bytes one call writes are contiguous on the wire, never
\* interleaved with the bytes of another send or write_str; and what a
\* write_str writes is its string with every '\n' sent as '\r' then '\n'.
C20_RegisterAccessExclusive ==
    /\ \A t1, t2 \in Threads : (Inside(t1) /\ Inside(t2)) => t1 = t2
    /\ \A t \in Threads : Inside(t) => mutex = t
    /\ \A i, k \in 1..Len(tx) :
          (i < k /\ SameCall(tx[i], tx[k])) =>
              \A j \in i..k : SameCall(tx[i], tx[j])
    /\ \A t \in Threads :
          (Inside(t) /\ thr[t].op = "write_str") =>
              /\ IsPrefix(Emitted(t, Len(tx)), Encode(thr[t].s))
              /\ thr[t].pc = "ret" => Emitted(t, Len(tx)) = Encode(thr[t].s)

\* C20 witness: a thread is inside write_str between the '\r' and the '\n'
\* of a line feed, with two bytes written, while the other thread waits for
\* the lock with bytes to send.
C20_Witness ==
    \E t1, t2 \in Threads :
        /\ t1 # t2
        /\ thr[t1].pc = "in"
        /\ thr[t1].op = "write_str"
        /\ thr[t1].pend = <<LF>>
        /\ thr[t2].pc = "lock"
        /\ thr[t2].op \in {"send", "write_str"}
        /\ Len(tx) = 2
        /\ tx[1].t = t1
        /\ tx[2].byte = CR

====
